---- MODULE Spec2Model ----
(***************************************************************************)
(* Model of the Tana web-clip service (src/main.py): the text normalizer   *)
(* clean_text, the rich-text extractor, the section builder, the node      *)
(* assembly and the request handler parse_and_post_internal.               *)
(*                                                                         *)
(* A Python str is a sequence of Unicode code points (naturals).  None is  *)
(* a value different from every str.  A dict with insertion order is a     *)
(* sequence of [k, v] pairs with distinct keys.  A parsed HTML node is a   *)
(* record [tag, href, text, children]; a text node has tag TextTag.  Tag   *)
(* names and the fixed field values of the request are TLA+ strings: the   *)
(* program only compares them.                                             *)
(***************************************************************************)
EXTENDS Integers, Sequences, FiniteSets

VARIABLES
    \* clean_text(text) and its return value
    text, cleaned,
    \* extract_rich_text(element) and its return value
    element, rich_text,
    \* extract_structured_content(soup): soup.body and the returned list
    body, structured,
    \* lines 185-196: structured_sections and the children appended for them
    structured_sections, section_children,
    \* lines 170-176, 199-216: the meta elements and the children appended
    meta_elements, meta_children,
    \* TRUE once the function under check has returned
    returned,
    \* parse_and_post_internal: its position, its arguments, the page the url
    \* serves, the outcome of the GET, the node built, the POSTs made to the
    \* inbox endpoint with their outcomes, and the status the caller receives
    pc, request, page, get_result, tana_node, posts, response_code

fnVars == <<text, cleaned, element, rich_text, body, structured,
            structured_sections, section_children, meta_elements,
            meta_children, returned>>
handlerVars ==
    <<pc, request, page, get_result, tana_node, posts, response_code>>
vars == <<fnVars, handlerVars>>

(***************************************************************************)
(* Strings                                                                 *)
(***************************************************************************)
\* Python's None: not a str (no str holds the code point -1).
None == <<-1>>

\* Python truthiness of an Optional[str]: neither None nor "".
Truthy(x) == x # None /\ x # <<>>

NBSP == 160
Space == 32
Quote == 34

\* The characters [\r\n\t] of the first re.sub.
LineBreakChars == {13, 10, 9}

\* The characters \s matches in a str pattern, which are those str.strip()
\* removes (str.isspace).
SpaceChars ==
    {9, 10, 11, 12, 13, 28, 29, 30, 31, 32, 133, 160, 5760, 8232, 8233,
     8239, 8287, 12288} \cup (8192..8202)

IsSpace(c) == c \in SpaceChars

\* text.replace(NBSP, " "): U+00A0 becomes a space.
ReplaceNbsp(s) == [i \in 1..Len(s) |-> IF s[i] = NBSP THEN Space ELSE s[i]]

\* re.sub(r'[W]+', ' ', s): every maximal run of characters of W becomes one
\* space.  The characters kept are those not of W and the first of each run.
CollapseRuns(s, W) ==
    LET StartsPiece(i) == ~(s[i] \in W /\ i > 1 /\ s[i - 1] \in W)
        kept == SelectSeq([i \in 1..Len(s) |-> i], StartsPiece)
    IN  [j \in 1..Len(kept) |-> IF s[kept[j]] \in W THEN Space ELSE s[kept[j]]]

\* str.strip(): from the first character that is not a space to the last.
Strip(s) ==
    LET solid == {i \in 1..Len(s) : ~IsSpace(s[i])}
    IN  IF solid = {} THEN <<>>
        ELSE SubSeq(s, CHOOSE i \in solid : \A j \in solid : i <= j,
                       CHOOSE i \in solid : \A j \in solid : j <= i)

\* 'undefined'
Undefined == <<117, 110, 100, 101, 102, 105, 110, 101, 100>>
\* '"undefined"'
QuotedUndefined == <<Quote>> \o Undefined \o <<Quote>>

\* Line 58: text.lower() == 'undefined'.  str.lower() maps no character but
\* an ASCII letter to one of the letters of 'undefined' (U+0130, the only
\* character it maps to two, gives i followed by U+0307), so the texts it
\* maps to 'undefined' are the nine-letter texts that spell it in ASCII
\* letters of either case.
LowerIsUndefined(t) ==
    /\ Len(t) = Len(Undefined)
    /\ \A i \in 1..Len(t) : t[i] \in {Undefined[i], Undefined[i] - 32}

\* Line 58: the sentinel test on the stripped text.
IsSentinel(t) == t = QuotedUndefined \/ LowerIsUndefined(t)

clean_text(s) ==
    IF ~Truthy(s) THEN None
    ELSE LET t1 == ReplaceNbsp(s)
             t2 == CollapseRuns(t1, LineBreakChars)
             t3 == CollapseRuns(t2, SpaceChars)
             t4 == Strip(t3)
         IN  IF IsSentinel(t4) THEN None ELSE t4

(***************************************************************************)
(* Inputs of clean_text: a word, optionally quoted, between two paddings.  *)
(***************************************************************************)
\* 'undefined' with the letters at the positions of U in upper case.
Cased(U) ==
    [i \in 1..Len(Undefined) |->
        IF i \in U THEN Undefined[i] - 32 ELSE Undefined[i]]

SentinelWords == {Cased(U) : U \in (SUBSET {1, 3, 9}) \cup {1..9}}

OtherWords ==
    { <<>>, <<97>>, <<97, 32, 32, 98>>, <<97, 9, 10, 98>>, <<97, NBSP, 98>>,
      SubSeq(Undefined, 1, 8), Undefined \o <<120>>,
      <<117, 110, 32>> \o SubSeq(Undefined, 3, 9) }

Paddings == { <<>>, <<Space>>, <<9, 10>>, <<NBSP, 13>> }

Quotings == { <<0, 0>>, <<1, 1>>, <<1, 0>>, <<0, 1>> }

Quoted(w, q) ==
    (IF q[1] = 1 THEN <<Quote>> ELSE <<>>) \o w
    \o (IF q[2] = 1 THEN <<Quote>> ELSE <<>>)

TextInputs ==
    {None} \cup
    { l \o Quoted(w, q) \o r :
        l \in Paddings, r \in Paddings, q \in Quotings,
        w \in SentinelWords \cup OtherWords }

(***************************************************************************)
(* Idle values of the variables a specification does not use.              *)
(***************************************************************************)
NoNode == [tag |-> "none", href |-> None, text |-> <<>>, children |-> <<>>]

IdleText == text = None /\ cleaned = None
IdleRich == element = NoNode /\ rich_text = None
IdleSections == body = NoNode /\ structured = <<>>
IdleAssemble == structured_sections = <<>> /\ section_children = <<>>
IdleMeta == meta_elements = <<>> /\ meta_children = <<>>
\* No outcome of a network call yet.
NoResult == [raised |-> FALSE, status |-> 0]
NoTanaNode == [name |-> <<>>, description |-> None, children |-> <<>>]
NoPage == [title |-> None, metas |-> <<>>, body |-> NoNode]
NoRequest == [url |-> <<>>, target_node_id |-> <<>>]

IdleHandler ==
    /\ pc = "idle"
    /\ request = NoRequest
    /\ page = NoPage
    /\ get_result = NoResult
    /\ tana_node = NoTanaNode
    /\ posts = <<>>
    /\ response_code = 0

(***************************************************************************)
(* clean_text as a specification                                           *)
(***************************************************************************)
InitCleanText ==
    /\ text \in TextInputs
    /\ cleaned = None
    /\ returned = FALSE
    /\ IdleRich /\ IdleSections /\ IdleAssemble /\ IdleMeta /\ IdleHandler

CallCleanText ==
    /\ ~returned
    /\ cleaned' = clean_text(text)
    /\ returned' = TRUE
    /\ UNCHANGED <<text, element, rich_text, body, structured,
                   structured_sections, section_children, meta_elements,
                   meta_children, handlerVars>>

SpecCleanText == InitCleanText /\ [][CallCleanText]_vars

\* What C8 calls an input whose trimmed, whitespace-collapsed form is the word
\* undefined, in any letter case, with or without surrounding double quotes:
\* whitespace, then such a word, then whitespace.
AllSpace(s) == \A i \in 1..Len(s) : IsSpace(s[i])

\* s is the lower-case word w with each letter in either case.
SpellsInAnyCase(s, w) ==
    /\ Len(s) = Len(w)
    /\ \A i \in 1..Len(s) :
           s[i] = w[i] \/ (w[i] \in 97..122 /\ s[i] = w[i] - 32)

IsSentinelForm(s) ==
    \E i \in 1..Len(s) : \E j \in i..Len(s) :
        /\ AllSpace(SubSeq(s, 1, i - 1))
        /\ AllSpace(SubSeq(s, j + 1, Len(s)))
        /\ \/ SpellsInAnyCase(SubSeq(s, i, j), Undefined)
           \/ SpellsInAnyCase(SubSeq(s, i, j), QuotedUndefined)

\* C8: clean_text returns None for every input whose trimmed form is the word
\* undefined in any letter case, quoted or not, and for absent or
\* whitespace-only input.
C8_SentinelFiltered ==
    (returned /\ (text = None \/ AllSpace(text) \/ IsSentinelForm(text)))
        => cleaned = None

(***************************************************************************)
(* Parsed HTML (BeautifulSoup with html.parser)                            *)
(***************************************************************************)
TextTag == "#text"

\* A NavigableString.
TextNode(s) == [tag |-> TextTag, href |-> None, text |-> s, children |-> <<>>]

\* A Tag without an href attribute.
Elem(t, kids) == [tag |-> t, href |-> None, text |-> <<>>, children |-> kids]

\* An <a> Tag; h is its href attribute, None when it has none.
Anchor(h, kids) == [tag |-> "a", href |-> h, text |-> <<>>, children |-> kids]

IsTag(n) == n.tag # TextTag

\* Tag.descendants: the nodes below a node, in document order.
RECURSIVE DescSeq(_)
DescSeq(ns) ==
    IF ns = <<>> THEN <<>>
    ELSE <<Head(ns)>> \o DescSeq(Head(ns).children) \o DescSeq(Tail(ns))

Descendants(n) == DescSeq(n.children)

RECURSIVE Concat(_)
Concat(ss) == IF ss = <<>> THEN <<>> ELSE Head(ss) \o Concat(Tail(ss))

\* Tag.get_text(): the strings below the tag, concatenated.
get_text(n) ==
    LET d == Descendants(n)
    IN  Concat([i \in 1..Len(d) |-> IF IsTag(d[i]) THEN <<>> ELSE d[i].text])

\* " ".join(parts)
RECURSIVE Join(_)
Join(parts) ==
    IF parts = <<>> THEN <<>>
    ELSE IF Len(parts) = 1 THEN Head(parts)
    ELSE Head(parts) \o <<Space>> \o Join(Tail(parts))

\* f"[{text}]({href})"
LinkMarkup(t, h) == <<91>> \o t \o <<93, 40>> \o h \o <<41>>

\* Lines 66-79: what one descendant appends to parts.
PartsOf(child) ==
    IF IsTag(child)
    THEN IF child.tag = "a" /\ Truthy(child.href)
         THEN LET t == clean_text(get_text(child))
              IN  IF Truthy(t) /\ Truthy(child.href)
                  THEN <<LinkMarkup(t, child.href)>>
                  ELSE <<>>
         ELSE <<>>
    ELSE LET t == clean_text(child.text)
         IN  IF Truthy(t) THEN <<t>> ELSE <<>>

extract_rich_text(e) ==
    LET d == Descendants(e)
        parts == Concat([i \in 1..Len(d) |-> PartsOf(d[i])])
    IN  clean_text(Join(parts))

(***************************************************************************)
(* Inputs of extract_rich_text: a <p> of up to MaxInline inline nodes.     *)
(***************************************************************************)
MaxInline == 3

Hello == <<72, 101, 108, 108, 111, 32>>
World == <<119, 111, 114, 108, 100>>
Bang == <<33>>
XCom == <<104, 116, 116, 112, 58, 47, 47, 120, 46, 99, 111, 109>>

Inlines ==
    { TextNode(Hello), TextNode(Bang), TextNode(<<Space, 10>>),
      Anchor(XCom, <<TextNode(World)>>),
      Anchor(None, <<TextNode(World)>>),
      Anchor(<<>>, <<TextNode(World)>>),
      Anchor(XCom, <<>>),
      Anchor(XCom, <<Elem("b", <<TextNode(World)>>), TextNode(Bang)>>),
      Elem("b", <<TextNode(Bang)>>),
      Elem("b", <<Anchor(XCom, <<TextNode(Hello)>>)>>) }

SeqsUpTo(S, n) == UNION {[1..k -> S] : k \in 0..n}

RichInputs == {Elem("p", kids) : kids \in SeqsUpTo(Inlines, MaxInline)}

InitRichText ==
    /\ element \in RichInputs
    /\ rich_text = None
    /\ returned = FALSE
    /\ IdleText /\ IdleSections /\ IdleAssemble /\ IdleMeta /\ IdleHandler

CallExtractRichText ==
    /\ ~returned
    /\ rich_text' = extract_rich_text(element)
    /\ returned' = TRUE
    /\ UNCHANGED <<text, cleaned, element, body, structured,
                   structured_sections, section_children, meta_elements,
                   meta_children, handlerVars>>

SpecRichText == InitRichText /\ [][CallExtractRichText]_vars

\* The fragments C6 describes: a text node gives its normalized text once; an
\* anchor with a non-empty href and non-empty normalized text gives one
\* fragment [text](href), and its text is not given a second time.
RECURSIVE ClaimedParts(_)
ClaimedParts(ns) ==
    IF ns = <<>> THEN <<>>
    ELSE LET n == Head(ns)
             own ==
                 IF ~IsTag(n)
                 THEN LET t == clean_text(n.text)
                      IN  IF Truthy(t) THEN <<t>> ELSE <<>>
                 ELSE IF n.tag = "a" /\ Truthy(n.href)
                         /\ Truthy(clean_text(get_text(n)))
                 THEN <<LinkMarkup(clean_text(get_text(n)), n.href)>>
                 ELSE ClaimedParts(n.children)
         IN  own \o ClaimedParts(Tail(ns))

\* C6: the result of extract_rich_text is the fragments of the element in
\* document order joined by single spaces, each link once as [text](href)
\* and every other text node once.
C6_LinkTextOnce ==
    returned => rich_text = clean_text(Join(ClaimedParts(element.children)))

(***************************************************************************)
(* Section builder                                                         *)
(***************************************************************************)
ExcludedTags == {"nav", "summary", "details"}
HeadingTags == {"h1", "h2", "h3"}
ParagraphTags == {"p", "li"}

\* body.find_all(recursive=True): the Tags below body, in document order.
find_all(n) == SelectSeq(Descendants(n), IsTag)

\* The variant of flush_section that appends the section unconditionally.
flush_section_unguarded(done, current_section) == Append(done, current_section)

\* Lines 96-98: the current section is appended only if it has children.
flush_section(done, current_section) ==
    IF current_section.children # <<>>
    THEN Append(done, current_section)
    ELSE done

\* Lines 100-115: the loop over the elements, carrying the list built so far
\* and the current section.
RECURSIVE WalkElements(_, _, _)
WalkElements(elements, done, current_section) ==
    IF elements = <<>>
    THEN flush_section(done, current_section)
    ELSE LET e == Head(elements)
             rest == Tail(elements)
         IN  IF e.tag \in ExcludedTags
             THEN WalkElements(rest, done, current_section)
             ELSE IF e.tag \in HeadingTags
             THEN WalkElements(rest, flush_section(done, current_section),
                      [name |-> clean_text(get_text(e)), children |-> <<>>])
             ELSE IF e.tag \in ParagraphTags
             THEN LET rt == extract_rich_text(e)
                  IN  IF Truthy(rt)
                      THEN WalkElements(rest, done,
                               [current_section EXCEPT
                                   !.children = Append(@, [name |-> rt])])
                      ELSE WalkElements(rest, done, current_section)
             ELSE WalkElements(rest, done, current_section)

\* soup.body is None when the document has no <body>: the node NoNode.
extract_structured_content(b) ==
    IF b = NoNode THEN <<>>
    ELSE WalkElements(find_all(b), <<>>, [name |-> <<>>, children |-> <<>>])

(***************************************************************************)
(* Inputs of extract_structured_content: a body of up to MaxBlocks blocks. *)
(***************************************************************************)
MaxBlocks == 3

Skip == <<115, 107, 105, 112>>
Keep == <<107, 101, 101, 112>>

P(s) == Elem("p", <<TextNode(s)>>)

Blocks ==
    { Elem("h1", <<TextNode(<<65>>)>>),
      Elem("h2", <<TextNode(<<66>>)>>),
      Elem("h3", <<>>),
      Elem("h4", <<TextNode(<<67>>)>>),
      P(<<120>>), P(Keep), P(<<Space>>),
      Elem("p", <<TextNode(Hello), Anchor(XCom, <<TextNode(World)>>)>>),
      Elem("ul", <<Elem("li", <<P(<<121>>)>>)>>),
      Elem("div", <<Elem("h2", <<TextNode(<<68>>)>>), P(<<100>>)>>),
      Elem("nav", <<P(Skip)>>),
      Elem("nav", <<Elem("h2", <<TextNode(<<78>>)>>),
                    Elem("ul", <<Elem("li", <<TextNode(<<109>>)>>)>>)>>),
      Elem("details", <<Elem("summary", <<TextNode(<<115>>)>>), P(<<104>>)>>) }

BodyInputs ==
    {NoNode} \cup {Elem("body", kids) : kids \in SeqsUpTo(Blocks, MaxBlocks)}

InitSections ==
    /\ body \in BodyInputs
    /\ structured = <<>>
    /\ returned = FALSE
    /\ IdleText /\ IdleRich /\ IdleAssemble /\ IdleMeta /\ IdleHandler

CallExtractStructuredContent ==
    /\ ~returned
    /\ structured' = extract_structured_content(body)
    /\ returned' = TRUE
    /\ UNCHANGED <<text, cleaned, element, rich_text, body,
                   structured_sections, section_children, meta_elements,
                   meta_children, handlerVars>>

SpecSections == InitSections /\ [][CallExtractStructuredContent]_vars

\* The node with every nav, summary and details element below it removed.
RECURSIVE PruneSeq(_)
PruneSeq(ns) ==
    IF ns = <<>> THEN <<>>
    ELSE LET n == Head(ns)
         IN  IF n.tag \in ExcludedTags THEN PruneSeq(Tail(ns))
             ELSE <<[n EXCEPT !.children = PruneSeq(@)]>> \o PruneSeq(Tail(ns))

Prune(n) == [n EXCEPT !.children = PruneSeq(@)]

NavExample == Elem("body", <<Elem("nav", <<P(Skip)>>), P(Keep)>>)

\* C5: nothing below a nav, summary or details element is visited: the
\* sections are those of the body without these subtrees, and
\* <nav><p>skip</p></nav><p>keep</p> gives one section with paragraphs [keep].
C5_ExcludedSubtreesSkipped ==
    returned =>
        /\ structured = extract_structured_content(Prune(body))
        /\ body = NavExample =>
               structured = <<[name |-> <<>>, children |-> <<[name |-> Keep]>>]>>

\* The sections C9 describes.  The elements are cut at the headings: segment 0
\* runs from the start to the first heading, segment k from the k-th heading
\* to the next one or the end.  A segment's paragraphs are the non-empty rich
\* texts of its p and li elements; the segments with a paragraph are returned.
HeadingPositions(es) == {i \in 1..Len(es) : es[i].tag \in HeadingTags}

SegmentStart(es, k) ==
    IF k = 0 THEN 0
    ELSE CHOOSE i \in HeadingPositions(es) :
             Cardinality({j \in HeadingPositions(es) : j <= i}) = k

SegmentEnd(es, k) ==
    IF k = Cardinality(HeadingPositions(es)) THEN Len(es)
    ELSE SegmentStart(es, k + 1) - 1

SegmentParagraphs(es, k) ==
    LET inside == SubSeq(es, SegmentStart(es, k) + 1, SegmentEnd(es, k))
        texts == [i \in 1..Len(inside) |->
                     IF inside[i].tag \in ParagraphTags
                     THEN extract_rich_text(inside[i]) ELSE None]
        kept == SelectSeq(texts, Truthy)
    IN  [i \in 1..Len(kept) |-> [name |-> kept[i]]]

Segment(es, k) ==
    [name |-> IF k = 0 THEN <<>> ELSE clean_text(get_text(es[SegmentStart(es, k)])),
     children |-> SegmentParagraphs(es, k)]

RECURSIVE SegmentsFrom(_, _)
SegmentsFrom(es, k) ==
    IF k > Cardinality(HeadingPositions(es)) THEN <<>>
    ELSE (IF SegmentParagraphs(es, k) # <<>> THEN <<Segment(es, k)>> ELSE <<>>)
         \o SegmentsFrom(es, k + 1)

HeadingExample ==
    Elem("body", <<Elem("h1", <<TextNode(<<65>>)>>), P(<<120>>),
                   Elem("h2", <<TextNode(<<66>>)>>)>>)

\* C9: the returned list holds, in document order, exactly the
\* heading-delimited sections (the unnamed first one and one per h1/h2/h3)
\* that got at least one paragraph or list-item text; every returned section
\* has a paragraph, and a heading without content gives no section.
C9_SectionsAreNonEmptySegments ==
    (returned /\ body # NoNode) =>
        /\ \A i \in 1..Len(structured) : structured[i].children # <<>>
        /\ structured = SegmentsFrom(find_all(body), 0)

\* <h1>A</h1><p>x</p><h2>B</h2> has given only section A with paragraphs [x].
C9_Witness ==
    /\ returned
    /\ body = HeadingExample
    /\ structured = <<[name |-> <<65>>, children |-> <<[name |-> <<120>>]>>]>>

(***************************************************************************)
(* Node assembly: the section children (lines 185-196)                     *)
(***************************************************************************)
MAX_SECTIONS == 100

\* The node appended when the cap is reached (lines 190-193).
ClipMarker ==
    [name |-> <<9888, 65039, 32, 67, 111, 110, 116, 101, 110, 116, 32, 99,
                108, 105, 112, 112, 101, 100>>,
     description |->
         <<79, 110, 108, 121, 32, 116, 104, 101, 32, 102, 105, 114, 115, 116,
           32, 49, 48, 48, 32, 115, 101, 99, 116, 105, 111, 110, 115, 32, 119,
           101, 114, 101, 32, 105, 110, 99, 108, 117, 100, 101, 100, 46>>]

\* Line 195: the test a section passes to be appended.
SectionIsAppended(section) ==
    Truthy(section.name) /\ section.children # <<>>

\* Lines 188-196: the loop visits the sections at the indexes below
\* MAX_SECTIONS and appends those that pass the test; when there is a section
\* at index MAX_SECTIONS it appends the clip marker there and breaks.
SectionNodes(sections) ==
    LET visited ==
            SubSeq(sections, 1,
                   IF Len(sections) < MAX_SECTIONS THEN Len(sections)
                   ELSE MAX_SECTIONS)
        appended == SelectSeq(visited, SectionIsAppended)
    IN  IF Len(sections) > MAX_SECTIONS
        THEN Append(appended, ClipMarker)
        ELSE appended

(***************************************************************************)
(* Inputs of the section loop: n sections of one paragraph each, named     *)
(* S000, S001, ..., one of them possibly without a heading text.           *)
(***************************************************************************)
MaxSections == 102

Digit(d) == 48 + d

SectionName(i) ==
    <<83, Digit(i \div 100), Digit((i \div 10) % 10), Digit(i % 10)>>

\* Section i of an input: the unnamed one has the name "" when it is the
\* first section (the content before the first heading) and None otherwise
\* (a heading without text).
InputSection(i, unnamed) ==
    [name |-> IF i # unnamed THEN SectionName(i)
              ELSE IF i = 1 THEN <<>> ELSE None,
     children |-> <<[name |-> <<120>>]>>]

SectionInputs ==
    { [i \in 1..n |-> InputSection(i, u)] : n \in 0..MaxSections, u \in 0..3 }

InitAssemble ==
    /\ structured_sections \in SectionInputs
    /\ section_children = <<>>
    /\ returned = FALSE
    /\ IdleText /\ IdleRich /\ IdleSections /\ IdleMeta /\ IdleHandler

CallSectionLoop ==
    /\ ~returned
    /\ section_children' = SectionNodes(structured_sections)
    /\ returned' = TRUE
    /\ UNCHANGED <<text, cleaned, element, rich_text, body, structured,
                   structured_sections, meta_elements, meta_children,
                   handlerVars>>

SpecAssemble == InitAssemble /\ [][CallSectionLoop]_vars

\* C4: of n sections with a paragraph each, the root gets the first 100 in
\* order and then one clip marker when n > 100, and all n and no marker
\* otherwise.
C4_SectionCap ==
    returned =>
        section_children =
            IF Len(structured_sections) > MAX_SECTIONS
            THEN SubSeq(structured_sections, 1, MAX_SECTIONS) \o <<ClipMarker>>
            ELSE structured_sections

(***************************************************************************)
(* Metadata (lines 170-176 and 199-216)                                    *)
(***************************************************************************)
\* A <meta> Tag: its property, name and content attributes, None when the
\* attribute is missing.
Meta(p, n, c) == [property |-> p, name |-> n, content |-> c]

\* tag.get(attr, ""): the attribute, "" when it is missing.
GetOrEmpty(v) == IF v = None THEN <<>> ELSE v

OgPrefix == <<111, 103, 58>>

\* str.startswith
StartsWith(s, prefix) ==
    Len(s) >= Len(prefix) /\ SubSeq(s, 1, Len(prefix)) = prefix

\* d[k] = v on a dict kept as a sequence of pairs: an existing key keeps its
\* place and gets the new value, a new key goes to the end.
DictSet(d, k, v) ==
    IF \E i \in 1..Len(d) : d[i].k = k
    THEN [i \in 1..Len(d) |-> IF d[i].k = k THEN [k |-> k, v |-> v] ELSE d[i]]
    ELSE Append(d, [k |-> k, v |-> v])

IsOgTag(tag) == StartsWith(GetOrEmpty(tag.property), OgPrefix)

\* Lines 172-176, for og_tags.
RECURSIVE CollectOg(_, _)
CollectOg(tags, og_tags) ==
    IF tags = <<>> THEN og_tags
    ELSE LET tag == Head(tags)
         IN  IF IsOgTag(tag)
             THEN CollectOg(Tail(tags),
                      DictSet(og_tags, tag.property, GetOrEmpty(tag.content)))
             ELSE CollectOg(Tail(tags), og_tags)

\* Lines 172-176, for meta_tags.
RECURSIVE CollectMeta(_, _)
CollectMeta(tags, meta_tags) ==
    IF tags = <<>> THEN meta_tags
    ELSE LET tag == Head(tags)
         IN  IF ~IsOgTag(tag) /\ Truthy(tag.name)
             THEN CollectMeta(Tail(tags),
                      DictSet(meta_tags, tag.name, GetOrEmpty(tag.content)))
             ELSE CollectMeta(Tail(tags), meta_tags)

RECURSIVE DictUpdate(_, _)
DictUpdate(d, other) ==
    IF other = <<>> THEN d
    ELSE DictUpdate(DictSet(d, Head(other).k, Head(other).v), Tail(other))

\* The variant of the merge in which the meta tags are written last.
MergeTagsMetaLast(meta_tags, og_tags) == DictUpdate(og_tags, meta_tags)

\* Line 199: {**meta_tags, **og_tags}
MergeTags(meta_tags, og_tags) == DictUpdate(meta_tags, og_tags)

MetaPrefix == <<77, 101, 116, 97, 58, 32>>

\* Lines 203-216: the node of one key and value.
MetaNode(k, v) ==
    [name |-> MetaPrefix \o k,
     children |-> <<[type |-> "field", attributeId |-> "nodeID",
                     children |-> <<[name |-> v]>>]>>]

\* Lines 199-216: the loop over the merged dict.
RECURSIVE MetaNodesOf(_)
MetaNodesOf(merged) ==
    IF merged = <<>> THEN <<>>
    ELSE LET k == clean_text(Head(merged).k)
             v == clean_text(Head(merged).v)
         IN  (IF Truthy(k) /\ Truthy(v) THEN <<MetaNode(k, v)>> ELSE <<>>)
             \o MetaNodesOf(Tail(merged))

MetaNodes(tags) ==
    MetaNodesOf(MergeTags(CollectMeta(tags, <<>>), CollectOg(tags, <<>>)))

(***************************************************************************)
(* Inputs of the metadata loop: up to MaxMetas meta elements.              *)
(***************************************************************************)
MaxMetas == 3

OgTitle == <<111, 103, 58, 116, 105, 116, 108, 101>>
Title == <<116, 105, 116, 108, 101>>

MetaElements ==
    { Meta(OgTitle, None, <<65>>),
      Meta(None, Title, <<66>>),
      Meta(None, OgTitle, <<66>>),
      Meta(None, OgTitle \o <<Space>>, <<66>>),
      Meta(OgTitle, None, None),
      Meta(OgTitle, Title, <<67>>),
      Meta(None, Title, <<Space>>),
      Meta(None, <<Space>>, <<65>>),
      Meta(<<112>>, Title, <<68>>),
      Meta(None, None, <<65>>) }

InitMeta ==
    /\ meta_elements \in SeqsUpTo(MetaElements, MaxMetas)
    /\ meta_children = <<>>
    /\ returned = FALSE
    /\ IdleText /\ IdleRich /\ IdleSections /\ IdleAssemble /\ IdleHandler

CallMetaLoop ==
    /\ ~returned
    /\ meta_children' = MetaNodes(meta_elements)
    /\ returned' = TRUE
    /\ UNCHANGED <<text, cleaned, element, rich_text, body, structured,
                   structured_sections, section_children, meta_elements,
                   handlerVars>>

SpecMeta == InitMeta /\ [][CallMetaLoop]_vars

\* The positions of the og tags and of the named meta tags among the elements.
OgPositions(tags) == {i \in 1..Len(tags) : IsOgTag(tags[i])}
NamePositions(tags) ==
    {i \in 1..Len(tags) : ~IsOgTag(tags[i]) /\ Truthy(tags[i].name)}

Max(S) == CHOOSE x \in S : \A y \in S : y <= x

\* The keys as the attributes spell them, before any normalization.
RawKeys(tags) ==
    {tags[i].property : i \in OgPositions(tags)}
    \cup {tags[i].name : i \in NamePositions(tags)}

\* The value of a raw key: that of the last og tag spelling it, and without
\* one that of the last named meta tag spelling it.
WinningValue(tags, k) ==
    LET og == {i \in OgPositions(tags) : tags[i].property = k}
        nm == {i \in NamePositions(tags) : tags[i].name = k}
    IN  GetOrEmpty(tags[IF og # {} THEN Max(og) ELSE Max(nm)].content)

ValidKeys(tags) ==
    {k \in RawKeys(tags) :
        Truthy(clean_text(k)) /\ Truthy(clean_text(WinningValue(tags, k)))}

\* The value a metadata child carries.
ValueOf(child) == child.children[1].children[1].name

\* C7 as stated: one child per normalized key, and when an og tag and a meta
\* tag have the same key after normalization only og values appear for it.
C7_OgWinsPerNormalizedKey ==
    returned =>
        /\ \A i, j \in 1..Len(meta_children) :
               i # j => meta_children[i].name # meta_children[j].name
        /\ \A o \in OgPositions(meta_elements) :
           \A m \in NamePositions(meta_elements) :
               LET key == clean_text(meta_elements[o].property)
                   ogValues ==
                       {clean_text(GetOrEmpty(meta_elements[x].content)) :
                           x \in {y \in OgPositions(meta_elements) :
                                     clean_text(meta_elements[y].property) = key}}
               IN  (Truthy(key) /\ clean_text(meta_elements[m].name) = key) =>
                       \A c \in 1..Len(meta_children) :
                           meta_children[c].name = MetaPrefix \o key =>
                               ValueOf(meta_children[c]) \in ogValues

\* C7, amended: there is one child per distinct raw key whose normalized key
\* and winning value are not absent, carrying that normalized key and value;
\* the og value wins whenever an og tag and a meta tag spell the same raw key.
C7_OgWinsPerRawKey ==
    returned =>
        LET keys == ValidKeys(meta_elements)
        IN  /\ Len(meta_children) = Cardinality(keys)
            /\ \E f \in [1..Len(meta_children) -> keys] :
                   /\ \A i, j \in 1..Len(meta_children) : f[i] = f[j] => i = j
                   /\ \A i \in 1..Len(meta_children) :
                          meta_children[i] =
                              MetaNode(clean_text(f[i]),
                                  clean_text(WinningValue(meta_elements, f[i])))

\* og:title=A, a meta tag named og:title with B, and title=B have given two
\* children: og:title with A and title with B.
C7_Witness ==
    /\ returned
    /\ meta_elements = <<Meta(None, OgTitle, <<66>>), Meta(OgTitle, None, <<65>>),
                         Meta(None, Title, <<66>>)>>
    /\ meta_children = <<MetaNode(OgTitle, <<65>>), MetaNode(Title, <<66>>)>>

(***************************************************************************)
(* The request handler parse_and_post_internal                             *)
(***************************************************************************)
\* The outcome of a network call: it raised a RequestException (no
\* connection, a timeout, ...) or returned a response with a status.
Raised == [raised |-> TRUE, status |-> 0]
Returned(s) == [raised |-> FALSE, status |-> s]

GetStatuses == {200, 204, 304, 404, 500}
PostStatuses == {200, 201, 400, 500}

GetOutcomes == {Raised} \cup {Returned(s) : s \in GetStatuses}
PostOutcomes == {Raised} \cup {Returned(s) : s \in PostStatuses}

\* Response.raise_for_status(): raises for the statuses 400 to 599.
RaisesForStatus(s) == 400 <= s /\ s < 600

\* Lines 154-160: the GET raised, or raise_for_status did.
FetchFails(outcome) == outcome.raised \/ RaisesForStatus(outcome.status)

\* The variant of the test of the first POST that is raise_for_status.
PublishRejectedByErrorStatus(outcome) ==
    outcome.raised \/ RaisesForStatus(outcome.status)

\* Lines 231-241: the first POST raised, or its status is not 200.
PublishRejected(outcome) == outcome.raised \/ outcome.status # 200

\* The characters of a str.
Range(s) == {s[i] : i \in 1..Len(s)}

\* The position of the first occurrence of a character of W at or after i,
\* Len(s) + 1 when there is none.
FindFirst(s, W, i) ==
    LET found == {j \in i..Len(s) : s[j] \in W}
    IN  IF found = {} THEN Len(s) + 1
        ELSE CHOOSE j \in found : \A k \in found : j <= k

\* urllib.parse: the characters urlsplit strips from the front of a url, the
\* characters it removes from it, the characters of a scheme, and the schemes
\* whose last path segment urlparse cuts at a ';'.
C0ControlOrSpace == 0..32
UnsafeUrlChars == {9, 13, 10}
AsciiLetters == (65..90) \cup (97..122)
SchemeChars == AsciiLetters \cup (48..57) \cup {43, 45, 46}
UsesParams ==
    { <<>>,
      <<102, 116, 112>>,
      <<104, 100, 108>>,
      <<112, 114, 111, 115, 112, 101, 114, 111>>,
      <<104, 116, 116, 112>>,
      <<105, 109, 97, 112>>,
      <<104, 116, 116, 112, 115>>,
      <<115, 104, 116, 116, 112>>,
      <<114, 116, 115, 112>>,
      <<114, 116, 115, 112, 115>>,
      <<114, 116, 115, 112, 117>>,
      <<115, 105, 112>>,
      <<115, 105, 112, 115>>,
      <<109, 109, 115>>,
      <<115, 102, 116, 112>>,
      <<116, 101, 108>> }

\* urlsplit's cleaning of the url: url.lstrip(C0 controls and space), then
\* every tab, CR and LF removed.
CleanUrl(u) ==
    LET NotUnsafe(c) == c \notin UnsafeUrlChars
        first == FindFirst(u, {c \in Range(u) : c \notin C0ControlOrSpace}, 1)
    IN  SelectSeq(SubSeq(u, first, Len(u)), NotUnsafe)

\* s.split(c): the pieces of s between the occurrences of c.
Split(s, c) ==
    LET IsSep(i) == s[i] = c
        seps == SelectSeq([i \in 1..Len(s) |-> i], IsSep)
        cuts == <<0>> \o seps \o <<Len(s) + 1>>
    IN  [k \in 1..(Len(seps) + 1) |-> SubSeq(s, cuts[k] + 1, cuts[k + 1] - 1)]

\* s.partition(c)[0] and s.partition(c)[2]: s before and after its first c.
Before(s, c) == SubSeq(s, 1, FindFirst(s, {c}, 1) - 1)
After(s, c) == SubSeq(s, FindFirst(s, {c}, 1) + 1, Len(s))

DecimalDigits == 48..57
HexDigits == DecimalDigits \cup (65..70) \cup (97..102)

\* ipaddress.IPv4Address._parse_octet: one to three decimal digits with no
\* leading zero, of value at most 255.
IsOctet(o) ==
    LET d(i) == o[i] - 48
        value == IF Len(o) = 1 THEN d(1)
                 ELSE IF Len(o) = 2 THEN 10 * d(1) + d(2)
                 ELSE 100 * d(1) + 10 * d(2) + d(3)
    IN  /\ Len(o) \in 1..3
        /\ \A i \in 1..Len(o) : o[i] \in DecimalDigits
        /\ o = <<48>> \/ o[1] # 48
        /\ value <= 255

\* ipaddress.IPv4Address(h) does not raise: four octets separated by dots.
IsIPv4Address(h) ==
    /\ 47 \notin Range(h)
    /\ Len(Split(h, 46)) = 4
    /\ \A k \in 1..4 : IsOctet(Split(h, 46)[k])

\* ipaddress.IPv6Address._parse_hextet: one to four hexadecimal digits.
IsHextet(x) == Len(x) \in 1..4 /\ \A i \in 1..Len(x) : x[i] \in HexDigits

\* ipaddress.IPv6Address._ip_int_from_string, the parts between the colons:
\* an IPv4 suffix stands for two hextets.
IPv6Parts(split) ==
    IF 46 \in Range(split[Len(split)])
    THEN SubSeq(split, 1, Len(split) - 1) \o <<<<48>>, <<48>>>>
    ELSE split

\* The '::' of the parts: the empty parts between the ends.
SkipIndexes(parts) == {i \in 2..(Len(parts) - 1) : parts[i] = <<>>}

\* The hextets kept around a '::' at skip: an empty first or last part
\* belongs to the '::'.
PartsKept(parts, skip) ==
    (IF parts[1] = <<>> THEN skip - 2 ELSE skip - 1)
    + (IF parts[Len(parts)] = <<>> THEN Len(parts) - skip - 1
       ELSE Len(parts) - skip)

\* The parts make an address: at most nine; with a '::', which may occur
\* once, it skips at least one of the eight hextets and an empty end is next
\* to it; without, there are eight hextets.
AreIPv6Parts(parts) ==
    /\ Len(parts) <= 9
    /\ Cardinality(SkipIndexes(parts)) <= 1
    /\ IF SkipIndexes(parts) # {}
       THEN \E skip \in SkipIndexes(parts) :
                /\ parts[1] = <<>> => skip = 2
                /\ parts[Len(parts)] = <<>> => skip = Len(parts) - 1
                /\ 8 - PartsKept(parts, skip) >= 1
                /\ \A i \in 1..Len(parts) :
                       parts[i] # <<>> => IsHextet(parts[i])
       ELSE /\ Len(parts) = 8
            /\ \A i \in 1..Len(parts) : IsHextet(parts[i])

\* ipaddress.IPv6Address._ip_int_from_string does not raise: at least three
\* parts, a valid IPv4 address where the last part holds a dot.
IsIPv6Split(split) ==
    /\ Len(split) >= 3
    /\ 46 \in Range(split[Len(split)]) => IsIPv4Address(split[Len(split)])
    /\ AreIPv6Parts(IPv6Parts(split))

IsIPv6Body(a) == a # <<>> /\ IsIPv6Split(Split(a, 58))

\* ipaddress.IPv6Address(h) does not raise: the address, then possibly a %
\* and a scope id that is not empty and holds no %.
IsIPv6Address(h) ==
    /\ 47 \notin Range(h)
    /\ 37 \in Range(h) => (After(h, 37) # <<>> /\ 37 \notin Range(After(h, 37)))
    /\ IsIPv6Body(Before(h, 37))

\* re.match(r"\Av[a-fA-F0-9]+\..+\Z", h): v, hexadecimal digits up to the
\* first dot, and at least one character after it.
IsIPvFuture(h) ==
    LET dot == FindFirst(h, {46}, 1)
    IN  /\ h # <<>> /\ h[1] = 118
        /\ dot >= 3 /\ dot < Len(h)
        /\ \A i \in 2..(dot - 1) : h[i] \in HexDigits

\* urllib.parse._check_bracketed_host raises: a host in brackets is an
\* IPvFuture address when it starts with v, and an IPv6 address otherwise.
BracketedHostRaises(h) ==
    IF h # <<>> /\ h[1] = 118
    THEN ~IsIPvFuture(h)
    ELSE IsIPv4Address(h) \/ ~(IsIPv4Address(h) \/ IsIPv6Address(h))

\* The characters whose NFKC form holds one of / ? # @ : (no character
\* composes with one of the five, so a str's NFKC form holds one exactly
\* when the form of one of its characters does).
NfkcDelimiterChars ==
    {8263, 8264, 8265, 8448, 8449, 8453, 8454, 10868, 65043, 65046, 65109,
     65110, 65119, 65131, 65283, 65295, 65306, 65311, 65312}

\* urllib.parse._checknetloc raises: the NFKC form of the netloc holds a
\* delimiter the netloc does not.
NetlocRaises(netloc) == Range(netloc) \cap NfkcDelimiterChars # {}

\* urlsplit: the position of the colon that ends the scheme of the cleaned
\* url, 0 when it has no scheme (the first character is a letter and all up
\* to the colon are scheme characters).
SchemeEnd(u) ==
    IF /\ 2 <= FindFirst(u, {58}, 1) /\ FindFirst(u, {58}, 1) <= Len(u)
       /\ u[1] \in AsciiLetters
       /\ \A j \in 1..(FindFirst(u, {58}, 1) - 1) : u[j] \in SchemeChars
    THEN FindFirst(u, {58}, 1)
    ELSE 0

\* str.lower() of a scheme, whose characters are ASCII.
LowerScheme(s) ==
    [j \in 1..Len(s) |-> IF s[j] \in 65..90 THEN s[j] + 32 ELSE s[j]]

SchemeOf(u) == LowerScheme(SubSeq(u, 1, SchemeEnd(u) - 1))
AfterScheme(u) == SubSeq(u, SchemeEnd(u) + 1, Len(u))

\* urlsplit and _splitnetloc: after //, the netloc runs to the first / ? or #.
HasNetloc(rest) == Len(rest) >= 2 /\ rest[1] = 47 /\ rest[2] = 47
NetlocEnd(rest) ==
    IF HasNetloc(rest) THEN FindFirst(rest, {47, 63, 35}, 3) ELSE 1
NetlocOf(rest) ==
    IF HasNetloc(rest) THEN SubSeq(rest, 3, NetlocEnd(rest) - 1) ELSE <<>>

\* url.split('#', 1)[0].split('?', 1)[0]: the fragment is split off at the
\* first #, the query at the first ?.
CutQueryAndFragment(s) == SubSeq(s, 1, FindFirst(s, {35, 63}, 1) - 1)

PathOf(rest) ==
    CutQueryAndFragment(SubSeq(rest, NetlocEnd(rest), Len(rest)))

\* The position of the last / of the path, 1 when it has none.
LastSlash(path) ==
    IF 47 \notin Range(path) THEN 1
    ELSE CHOOSE j \in 1..Len(path) :
             path[j] = 47 /\ \A k \in (j + 1)..Len(path) : path[k] # 47

\* _splitparams: the path ends at the first ; of its last segment.
SplitParams(path) ==
    SubSeq(path, 1, FindFirst(path, {59}, LastSlash(path)) - 1)

\* urlsplit raises on the netloc: one bracket without the other, brackets
\* around something that is not an IPv6 or IPvFuture address, or a character
\* whose NFKC form holds a delimiter.
NetlocInvalid(netloc) ==
    \/ (91 \in Range(netloc)) # (93 \in Range(netloc))
    \/ /\ 91 \in Range(netloc)
       /\ BracketedHostRaises(Before(After(netloc, 91), 93))
    \/ NetlocRaises(netloc)

\* The ValueError urlparse raises.
ValueError == [raised |-> "ValueError"]

\* urlparse of the cleaned url: the scheme, the netloc and the path, or the
\* ValueError raised on the netloc.
ParseClean(u) ==
    IF NetlocInvalid(NetlocOf(AfterScheme(u)))
    THEN ValueError
    ELSE [scheme |-> SchemeOf(u),
          netloc |-> NetlocOf(AfterScheme(u)),
          path |-> IF SchemeOf(u) \in UsesParams
                   THEN SplitParams(PathOf(AfterScheme(u)))
                   ELSE PathOf(AfterScheme(u))]

\* urlparse(url)
UrlParse(url) == ParseClean(CleanUrl(url))

\* Line 167: parsed_url.netloc + parsed_url.path
NetlocAndPath(u) == UrlParse(u).netloc \o UrlParse(u).path

\* Line 164: the title of the page, None when it has none.
PageTitle(pg) == IF Truthy(pg.title) THEN clean_text(pg.title) ELSE None

\* Lines 165-166: the page has no title and urlparse raises on the url.
TitleRaises(req, pg) ==
    ~Truthy(PageTitle(pg)) /\ UrlParse(req.url) = ValueError

\* Lines 164-167: the title of the page, or the host and path of the url.
TitleOf(req, pg) ==
    IF Truthy(PageTitle(pg)) THEN PageTitle(pg) ELSE NetlocAndPath(req.url)

\* Lines 178-216: the root node.
BuildNode(req, pg) ==
    LET t == TitleOf(req, pg)
    IN  [name |-> IF t # <<>> THEN t ELSE req.url,
         description |-> None,
         children |-> SectionNodes(extract_structured_content(pg.body))
                      \o MetaNodes(pg.metas)]

\* Lines 218-221.
TanaRequest(req, node) ==
    [targetNodeId |-> req.target_node_id, nodes |-> <<node>>]

\* The variant of the diagnostic loop that resubmits nothing.
DebugTargetsNone(node) == <<>>

\* Line 245: the nodes the diagnostic loop resubmits one by one.
DebugTargets(node) == node.children

\* Lines 246-252: the request that resubmits one child.
TestNode(req, node, child) ==
    [targetNodeId |-> req.target_node_id,
     nodes |-> <<[name |-> node.name, children |-> <<child>>]>>]

(***************************************************************************)
(* Requests and the pages their urls serve.                                *)
(***************************************************************************)
ExampleUrl ==
    <<104, 116, 116, 112, 115, 58, 47, 47, 101, 120, 97, 109, 112, 108, 101,
      46, 99, 111, 109, 47, 97>>
\* 'https://example.com/a;b?x', whose path carries parameters and a query
ParamsUrl == ExampleUrl \o <<59, 98, 63, 120>>
Inbox == <<73, 78, 66, 79, 88>>

\* 'https://u[@example.com/a', whose user information holds a bracket
BracketUrl ==
    <<104, 116, 116, 112, 115, 58, 47, 47, 117, 91, 64, 101, 120, 97, 109,
      112, 108, 101, 46, 99, 111, 109, 47, 97>>

Requests ==
    { [url |-> u, target_node_id |-> Inbox] :
        u \in {ExampleUrl, ParamsUrl, BracketUrl} }

IntroExample ==
    Elem("body", <<P(<<73, 110, 116, 114, 111>>),
                   Elem("h1", <<TextNode(<<65>>)>>), P(<<120>>),
                   Elem("h2", <<TextNode(<<66>>)>>), Elem("li", <<TextNode(<<121>>)>>)>>)

Pages ==
    { [title |-> t, metas |-> m, body |-> b] :
        t \in {None, <<84>>},
        m \in {<<>>, <<Meta(OgTitle, None, <<65>>), Meta(None, Title, <<66>>)>>},
        b \in {NoNode, NavExample, HeadingExample, IntroExample} }

Init ==
    /\ pc = "get"
    /\ request \in Requests
    /\ page \in Pages
    /\ get_result = NoResult
    /\ tana_node = NoTanaNode
    /\ posts = <<>>
    /\ response_code = 0
    /\ returned = FALSE
    /\ IdleText /\ IdleRich /\ IdleSections /\ IdleAssemble /\ IdleMeta

\* Lines 154-160: the page fetch; a failure is answered with 400.
Get ==
    /\ pc = "get"
    /\ \E outcome \in GetOutcomes :
        /\ get_result' = outcome
        /\ IF FetchFails(outcome)
           THEN response_code' = 400 /\ pc' = "done"
           ELSE response_code' = response_code /\ pc' = "build"
    /\ UNCHANGED <<fnVars, request, page, tana_node, posts>>

\* Lines 162-224: parsing, extraction and assembly of the request.  The
\* ValueError of urlparse is caught nowhere: it ends the request, which the
\* framework answers with 500.
BuildRequest ==
    /\ pc = "build"
    /\ IF TitleRaises(request, page)
       THEN /\ response_code' = 500
            /\ pc' = "done"
            /\ UNCHANGED tana_node
       ELSE /\ tana_node' = BuildNode(request, page)
            /\ pc' = "post"
            /\ UNCHANGED response_code
    /\ UNCHANGED <<fnVars, request, page, get_result, posts>>

\* Lines 226-241 and 267-270: the POST of the whole node; success is answered
\* with 200, a rejection starts the diagnostic loop.
Post ==
    /\ pc = "post"
    /\ \E outcome \in PostOutcomes :
        /\ posts' = Append(posts, [json |-> TanaRequest(request, tana_node),
                                   outcome |-> outcome])
        /\ IF PublishRejected(outcome)
           THEN response_code' = response_code /\ pc' = "debug"
           ELSE response_code' = 200 /\ pc' = "done"
    /\ UNCHANGED <<fnVars, request, page, get_result, tana_node>>

\* Lines 245-263: one iteration of the diagnostic loop; its outcome is logged.
DebugNode ==
    /\ pc = "debug"
    /\ Len(posts) - 1 < Len(DebugTargets(tana_node))
    /\ \E outcome \in PostOutcomes :
        posts' = Append(posts,
            [json |-> TestNode(request, tana_node,
                               DebugTargets(tana_node)[Len(posts)]),
             outcome |-> outcome])
    /\ UNCHANGED <<fnVars, pc, request, page, get_result, tana_node,
                   response_code>>

\* Line 265: after the loop the handler raises HTTPException(502).
RaiseBadGateway ==
    /\ pc = "debug"
    /\ Len(posts) - 1 >= Len(DebugTargets(tana_node))
    /\ response_code' = 502
    /\ pc' = "done"
    /\ UNCHANGED <<fnVars, request, page, get_result, tana_node, posts>>

Next == Get \/ BuildRequest \/ Post \/ DebugNode \/ RaiseBadGateway

Spec == Init /\ [][Next]_vars

(***************************************************************************)
(* Properties of the handler                                               *)
(***************************************************************************)
Fetched == get_result # NoResult

\* C1: when the GET raises or returns a status outside 200..299, the caller
\* gets 400 and no POST is ever made.
C1_NonSuccessStatusFails ==
    (Fetched /\ (get_result.raised \/ get_result.status \notin 200..299)) =>
        /\ pc = "done"
        /\ response_code = 400
        /\ posts = <<>>

\* C2: after a successful fetch the caller gets the success payload if and
\* only if the first POST returned 200, and 502 otherwise, whatever the
\* diagnostic resubmissions returned.
C2_ResponseFollowsFirstPublish ==
    (pc = "done" /\ Fetched /\ ~FetchFails(get_result)) =>
        /\ response_code = 200 <=>
               (posts # <<>> /\ posts[1].outcome = Returned(200))
        /\ (posts # <<>> /\ posts[1].outcome # Returned(200)) =>
               response_code = 502
        /\ response_code = 200 => Len(posts) = 1

\* The first POST was rejected with 500, every resubmission returned 200, and
\* the caller has got 502.
C2_Witness ==
    /\ pc = "done"
    /\ Len(posts) >= 3
    /\ posts[1].outcome = Returned(500)
    /\ \A i \in 2..Len(posts) : posts[i].outcome = Returned(200)
    /\ response_code = 502

\* C3 as stated: a request makes at most one POST to the inbox endpoint.
C3_AtMostOnePublish == Len(posts) <= 1

\* C3, amended: every POST follows a successful fetch; a request whose first
\* POST returns 200 makes that one POST, and a request whose first POST is
\* rejected makes one more POST per child of the root node; a request that
\* ends before the first POST, on a failed fetch or on the url of an untitled
\* page that urlparse rejects, makes none.
C3_PublishCount ==
    /\ posts # <<>> => (Fetched /\ ~FetchFails(get_result))
    /\ Len(posts) <= 1 + Len(tana_node.children)
    /\ pc = "done" =>
           Len(posts) = IF response_code \in {400, 500} THEN 0
                        ELSE IF response_code = 200 THEN 1
                        ELSE 1 + Len(tana_node.children)

\* A rejected request with three children has ended after four POSTs.
C3_Witness ==
    /\ pc = "done"
    /\ response_code = 502
    /\ Len(tana_node.children) = 3
    /\ Len(posts) = 4

\* C10: every section of the page among the first 100 that has a paragraph,
\* named or not, is a child of the root node of the published request.
C10_SectionsReachPublish ==
    posts # <<>> =>
        LET sections == extract_structured_content(page.body)
            sent == posts[1].json.nodes[1].children
        IN  \A i \in 1..Len(sections) :
                (i <= MAX_SECTIONS /\ sections[i].children # <<>>) =>
                    \E j \in 1..Len(sent) : sent[j] = sections[i]

====
